---------------------------- MODULE Spec2Model ----------------------------
(***************************************************************************)
(* A model of update_smm_data.py: the fetcher (fetch_smm_data), the        *)
(* formatter (format_data_for_js), the document updater (update_html_file) *)
(* and the orchestrator (main).                                            *)
(*                                                                         *)
(* Representation.                                                         *)
(*  - A date string is represented by its rank in lexicographic order:     *)
(*    0 is the empty string '', 1, 2, ... are ISO dates in ascending       *)
(*    order (zero-padded ISO dates sort lexicographically as they sort by  *)
(*    day).  today and the fetch windows are day numbers.                  *)
(*  - A float is represented by its number of halves (2.5 is 5), so that   *)
(*    (low + high) / 2 is exact.                                           *)
(*  - A text (the document, the generated block) is a sequence of atoms,   *)
(*    each atom a string standing for a run of characters.  The atoms are  *)
(*    cut so that every literal of the two regular expressions of          *)
(*    update_html_file is a sequence of whole atoms.                       *)
(***************************************************************************)
EXTENDS Integers, Sequences, FiniteSets, TLC

VARIABLES
    response,      \* SpecFetch: what the provider answers to the request
    fetch_result,  \* SpecFetch: outcome of fetch_smm_data on response
    pc,            \* main: position ("fetch", "update", "done")
    idx,           \* main: index in SMM_PRODUCTS of the next product
    today,         \* main: datetime.now(), a day number
    smm_data,      \* main: the DataSet, a function from keys to series
    fetch_log,     \* main: the calls of fetch_smm_data made so far
    update_calls,  \* main / SpecUpdate: the calls of update_html_file made
    exit_status,   \* main: Running, 0 or 1
    file,          \* the text of the document at html_path
    file0,         \* the text of the document when the process started
    file_hist      \* the text of the document before each call of
                   \* update_html_file, oldest first

vars == <<response, fetch_result, pc, idx, today, smm_data, fetch_log,
          update_calls, exit_status, file, file0, file_hist>>

-----------------------------------------------------------------------------
(* Bounds of the model *)

\* Longest list of rows in a response (SpecFetch)
MaxRows == 2
\* Most fragments a document is made of (SpecUpdate)
MaxFrags == 3

-----------------------------------------------------------------------------
(* JSON values of a row's price fields *)

\* a missing key or a JSON null: row.get(k) is None
None == [t |-> "null", v |-> 0]
\* a value float() accepts, of numeric value n
Num(n) == [t |-> "num", v |-> n]
\* a value float() rejects with ValueError (such as the string "abc")
Str == [t |-> "str", v |-> 0]

\* a Python float, holding h halves
Flt(h) == [t |-> "float", v |-> h]

\* float(x) of a convertible value or of a float, in halves
Float(x) == IF x.t = "float" THEN x.v ELSE 2 * x.v

\* An outcome of a block of code: it returned val, or raised exc
Returned(val) == [exc |-> "none", val |-> val]
Raised(e) == [exc |-> e, val |-> <<>>]

-----------------------------------------------------------------------------
(* fetch_smm_data *)

\* sorted(result, key=lambda x: x['date']): a stable insertion of p into
\* the sorted sequence s, after every element whose date is <= p's
RECURSIVE InsertByDate(_, _)
InsertByDate(s, p) ==
    IF s = <<>> THEN <<p>>
    ELSE IF s[Len(s)].date <= p.date THEN Append(s, p)
    ELSE Append(InsertByDate(SubSeq(s, 1, Len(s) - 1), p), s[Len(s)])

\* sorted() left out: the points in the order of the rows
SortedByDate_Unsorted(s) == s

RECURSIVE SortedByDate(_)
SortedByDate(s) ==
    IF s = <<>> THEN <<>>
    ELSE InsertByDate(SortedByDate(SubSeq(s, 1, Len(s) - 1)), s[Len(s)])

\* Lines 96-104: the price of one row: avg_price, else the mean of
\* low_price and high_price when both are there, else None.
\* float() of an unconvertible low or high raises ValueError.
RowPrice(row) ==
    IF row.avg_price # None THEN Returned(row.avg_price)
    ELSE IF row.low_price # None /\ row.high_price # None
         THEN IF row.low_price = Str \/ row.high_price = Str
              THEN Raised("ValueError")
              ELSE Returned(Flt((Float(row.low_price)
                                   + Float(row.high_price)) \div 2))
         ELSE Returned(None)

\* Lines 95-110: the loop over the rows, from row i with result so far.
\* float(price) at line 109 raises ValueError on an unconvertible price.
RECURSIVE ParseRows(_, _, _)
ParseRows(rows, i, result) ==
    IF i > Len(rows) THEN Returned(result)
    ELSE LET row == rows[i]
             price == RowPrice(row)
         IN IF price.exc # "none" THEN price
            ELSE IF row.date # 0 /\ price.val # None
                 THEN IF price.val = Str THEN Raised("ValueError")
                      ELSE ParseRows(rows, i + 1,
                               Append(result,
                                      [date |-> row.date,
                                       price |-> Float(price.val)]))
                 ELSE ParseRows(rows, i + 1, result)

\* Lines 84-112: the body of the try block.  The response says what
\* urlopen, read, decode and json.loads do for the request:
\*   kind "http_error": urlopen raises HTTPError (a 404, a 500)
\*   kind "url_error":  urlopen raises URLError (refused, no such host)
\*   kind "timeout":    the read raises socket.timeout
\*   kind "bad_json":   json.loads raises JSONDecodeError
\*   kind "json":       the body is a JSON object with this status and rows
TryBody(resp) ==
    CASE resp.kind = "http_error" -> Raised("HTTPError")
      [] resp.kind = "url_error" -> Raised("URLError")
      [] resp.kind = "timeout" -> Raised("timeout")
      [] resp.kind = "bad_json" -> Raised("JSONDecodeError")
      [] OTHER ->
           IF resp.status # "ok" THEN Returned(<<>>)
           ELSE LET parsed == ParseRows(resp.rows, 1, <<>>)
                IN IF parsed.exc # "none" THEN parsed
                   ELSE Returned(SortedByDate(parsed.val))

\* The except clauses without the last one, "except Exception"
Handlers_NoCatchAll(outcome) ==
    CASE outcome.exc = "HTTPError" -> Returned(<<>>)
      [] outcome.exc = "URLError" -> Returned(<<>>)
      [] OTHER -> outcome

\* Lines 114-122: the except clauses: HTTPError, URLError, then Exception,
\* which is a base class of every exception the body raises
Handlers(outcome) ==
    CASE outcome.exc = "none" -> outcome
      [] outcome.exc = "HTTPError" -> Returned(<<>>)
      [] outcome.exc = "URLError" -> Returned(<<>>)
      [] OTHER -> Returned(<<>>)

\* Lines 63-122.  The url is made of product_id, start_date and end_date;
\* resp is what the provider answers to it.
fetch_smm_data(product_id, start_date, end_date, resp) ==
    Handlers(TryBody(resp))

-----------------------------------------------------------------------------
(* Texts: the atoms *)

\* the leading comment's marker, "// SMM" followed by the four Chinese
\* characters for "real data" (line 150 and the pattern of line 185)
MARK == "// SMM-real-data"
\* "const smmData = {" (line 151 and the pattern of line 185)
DECL == "const smmData = {"
\* "};" (line 167 and the pattern of line 185)
CLOSE == "};"
\* a line break
NL == "\n"
\* four spaces
SP4 == "    "
\* the date stamp's label, the Chinese for "data updated at" followed by
\* ": " (lines 192-193)
LABEL == "data-updated-at: "

\* strftime('%Y-%m-%d') of a day, and a row's date string as it is written
DateStr(d) == "D" \o ToString(d)

\* f"{price}" of a float holding h halves: 3.0, 2.5
PriceStr(h) == ToString(h \div 2) \o (IF h % 2 = 0 THEN ".0" ELSE ".5")

\* the days of the model: the dates of rows and of old blocks, and the
\* days a run can happen on
RowDates == {1, 2}
Todays == {1000, 1001}
DateAtoms == {DateStr(d) : d \in RowDates \cup Todays}

\* sep.join(parts) for a sequence of texts
RECURSIVE Join(_, _)
Join(parts, sep) ==
    IF parts = <<>> THEN <<>>
    ELSE IF Len(parts) = 1 THEN parts[1]
    ELSE parts[1] \o sep \o Join(Tail(parts), sep)

-----------------------------------------------------------------------------
(* format_data_for_js *)

\* Line 132: one item
Item(d) ==
    <<"{date: \"", DateStr(d.date), "\", price: ", PriceStr(d.price), "}">>

\* Lines 135-138: the lines, two items each, 16 spaces in front
Lines(items) ==
    [n \in 1..((Len(items) + 1) \div 2) |->
        <<SP4, SP4, SP4, SP4>>
          \o Join(SubSeq(items, 2 * n - 1,
                         IF 2 * n <= Len(items) THEN 2 * n ELSE 2 * n - 1),
                  <<", ">>)]

\* Lines 125-140
format_data_for_js(data) ==
    IF data = <<>> THEN <<"[]">>
    ELSE <<"[", NL>>
           \o Join(Lines([i \in 1..Len(data) |-> Item(data[i])]), <<",", NL>>)
           \o <<NL, SP4, SP4, SP4, "]">>

-----------------------------------------------------------------------------
(* update_html_file *)

\* smm_data.get(key, [])
Get(data, key) == IF key \in DOMAIN data THEN data[key] ELSE <<>>

\* Lines 152-166: the keys of the block in their hardcoded order, each
\* with the comment line that precedes it ("" for none)
BLOCK_KEYS ==
    << [key |-> "silver", comment |-> "// raw materials"],
       [key |-> "wafer", comment |-> ""],
       [key |-> "silicon", comment |-> ""],
       [key |-> "cell", comment |-> ""],
       [key |-> "bcModule", comment |-> "// modules"],
       [key |-> "topconDomestic", comment |-> ""],
       [key |-> "hjtModule", comment |-> ""],
       [key |-> "topconFob182", comment |-> ""],
       [key |-> "topconFob210", comment |-> ""],
       [key |-> "percFob", comment |-> ""],
       [key |-> "topconIntegrated", comment |-> "// cost indices"],
       [key |-> "topconSemi", comment |-> ""] >>

\* One entry of the block: its comment line if any, then "key: series"
BlockEntry(e, data) ==
    (IF e.comment = "" THEN <<>> ELSE <<NL, SP4, SP4, SP4, e.comment>>)
      \o <<NL, SP4, SP4, SP4, e.key \o ": ">>
      \o format_data_for_js(Get(data, e.key))

\* Lines 150-181: the replacement text.  It starts with eight spaces.
smm_data_js(data, update_date) ==
    <<SP4, SP4, MARK, " (", DateStr(update_date), " fetched)",
      NL, SP4, SP4, DECL>>
      \o Join([i \in 1..Len(BLOCK_KEYS) |-> BlockEntry(BLOCK_KEYS[i], data)],
              <<",">>)
      \o <<NL, SP4, SP4, CLOSE>>

\* the last literal of the pattern of line 185: "\n        \};"
END_LIT == <<NL, SP4, SP4, CLOSE>>

\* The least position >= from where lit occurs in text, or 0
FindLit(text, lit, from) ==
    LET hits == {i \in from..(Len(text) - Len(lit) + 1) :
                    \A j \in 1..Len(lit) : text[i + j - 1] = lit[j]}
    IN IF hits = {} THEN 0
       ELSE CHOOSE i \in hits : \A j \in hits : i <= j

NoMatch == [start |-> 0, end |-> 0]

\* re.search of the pattern of line 185 with re.DOTALL, from position from:
\* the first marker, lazily (.*?) up to the first declaration after it,
\* lazily up to the first closing literal after that
Search(text, from) ==
    LET p == FindLit(text, <<MARK>>, from)
        q == IF p = 0 THEN 0 ELSE FindLit(text, <<DECL>>, p + 1)
        r == IF q = 0 THEN 0 ELSE FindLit(text, END_LIT, q + 1)
    IN IF r = 0 THEN NoMatch
       ELSE [start |-> p, end |-> r + Len(END_LIT) - 1]

\* Line 187: re.sub(pattern, smm_data_js, content, flags=re.DOTALL), the
\* text from position from on: no count is given, so every match is
\* replaced, left to right
RECURSIVE SubFrom(_, _, _)
SubFrom(content, repl, from) ==
    LET m == Search(content, from)
    IN IF m = NoMatch THEN SubSeq(content, from, Len(content))
       ELSE SubSeq(content, from, m.start - 1) \o repl
              \o SubFrom(content, repl, m.end + 1)

\* re.sub with count=1: only the first match is replaced
re_sub_block_CountOne(content, repl) ==
    LET m == Search(content, 1)
    IN IF m = NoMatch THEN content
       ELSE SubSeq(content, 1, m.start - 1) \o repl
              \o SubSeq(content, m.end + 1, Len(content))

re_sub_block(content, repl) == SubFrom(content, repl, 1)

\* Lines 191-195: re.sub of the date stamp: the label followed by a date
re_sub_date(content, update_date) ==
    [i \in 1..Len(content) |->
        IF i > 1 /\ content[i - 1] = LABEL /\ content[i] \in DateAtoms
        THEN DateStr(update_date)
        ELSE content[i]]

\* Lines 149-195: the new text of a document whose text is content
new_content(content, data, update_date) ==
    re_sub_date(re_sub_block(content, smm_data_js(data, update_date)),
                update_date)

\* update_html_file made to fail loudly when the pattern does not match
update_html_file_FailLoudly(content, data, update_date, io) ==
    CASE io = "read_error" -> [exc |-> "OSError", file |-> content]
      [] Search(content, 1) = NoMatch ->
           [exc |-> "ValueError", file |-> content]
      [] io = "write_error" -> [exc |-> "OSError", file |-> <<>>]
      [] OTHER -> [exc |-> "none",
                   file |-> new_content(content, data, update_date)]

\* Lines 143-198.  io says what the file system does: "ok"; "read_error",
\* open or read of line 146 raises; "write_error", the write of line 198
\* raises after open(html_path, 'w') has truncated the file (the model
\* takes the file to be left empty).
update_html_file(content, data, update_date, io) ==
    CASE io = "read_error" -> [exc |-> "OSError", file |-> content]
      [] io = "write_error" -> [exc |-> "OSError", file |-> <<>>]
      [] OTHER -> [exc |-> "none",
                   file |-> new_content(content, data, update_date)]

IOs == {"ok", "read_error", "write_error"}

-----------------------------------------------------------------------------
(* main *)

\* Lines 31-44, in insertion order
SMM_PRODUCTS ==
    << [key |-> "silver", id |-> "202512220022"],
       [key |-> "wafer", id |-> "202303220001"],
       [key |-> "silicon", id |-> "202501060003"],
       [key |-> "cell", id |-> "202210280001"],
       [key |-> "bcModule", id |-> "202506060001"],
       [key |-> "topconDomestic", id |-> "202310160001"],
       [key |-> "hjtModule", id |-> "202505270001"],
       [key |-> "topconFob182", id |-> "202505060001"],
       [key |-> "topconFob210", id |-> "202505060002"],
       [key |-> "percFob", id |-> "202507240001"],
       [key |-> "topconIntegrated", id |-> "202412190004"],
       [key |-> "topconSemi", id |-> "202412190005"] >>

\* Line 211: timedelta(days=45)
SPOT_DAYS == 45
\* Line 214: timedelta(days=90)
COST_DAYS == 90

\* Every product fetched with the 45-day window
FetchWindow_AllSpot(key, day) == [start |-> day - SPOT_DAYS, end |-> day]

\* Lines 226-230: the window a product is fetched with
FetchWindow(key, day) ==
    IF key \in {"topconIntegrated", "topconSemi"}
    THEN [start |-> day - COST_DAYS, end |-> day]
    ELSE [start |-> day - SPOT_DAYS, end |-> day]

\* data stored under key whether it is empty or not
Store_Always(data, key, series) == (key :> series) @@ data

\* Lines 232-237: data is stored under key only when it is not empty
Store(data, key, series) ==
    IF series # <<>> THEN (key :> series) @@ data ELSE data

\* 'cell' left out of the list
required_keys_NoCell == <<"silver", "wafer", "silicon">>

\* Line 242
required_keys == <<"silver", "wafer", "silicon", "cell">>

\* Line 243
Missing(data) ==
    SelectSeq(required_keys, LAMBDA k : k \notin DOMAIN data \/ data[k] = <<>>)

\* An except clause that reports the exception and does not exit
ExitAfterUpdate_Swallow(outcome) == 0

\* Lines 254-266: the exit status after the call of update_html_file:
\* the except clause turns any exception into sys.exit(1)
ExitAfterUpdate(outcome) == IF outcome.exc = "none" THEN 0 ELSE 1

\* The record of one call of update_html_file
CallRecord(data, update_date, io, outcome) ==
    [data |-> data, update_date |-> update_date, io |-> io,
     exc |-> outcome.exc]

NotFetched == [exc |-> "not called", val |-> <<>>]
NoResponse == [kind |-> "none", status |-> "", rows |-> <<>>]

\* the responses of the provider main is run against
MainRows ==
    << [date |-> 2, avg_price |-> Num(3), low_price |-> None,
        high_price |-> None],
       [date |-> 1, avg_price |-> None, low_price |-> Num(1),
        high_price |-> Num(4)],
       [date |-> 2, avg_price |-> None, low_price |-> Num(1),
        high_price |-> None] >>
MainResponses ==
    { [kind |-> "http_error", status |-> "", rows |-> <<>>],
      [kind |-> "json", status |-> "error", rows |-> MainRows],
      [kind |-> "json", status |-> "ok", rows |-> MainRows] }

\* the documents main is run against: one with a block and a date
\* stamp, one with neither
OldData == [k \in {"silver"} |-> <<[date |-> 1, price |-> 6]>>]
PageWithBlock ==
    <<"<p>", LABEL, DateStr(1), "</p>", NL>>
      \o smm_data_js(OldData, 1) \o <<NL, "</script>">>
MainDocuments == { PageWithBlock, <<"<p>", "</p>">> }

Init ==
    /\ response = NoResponse
    /\ fetch_result = NotFetched
    /\ pc = "fetch"
    /\ idx = 1
    /\ today \in Todays
    /\ smm_data = <<>>
    /\ fetch_log = <<>>
    /\ update_calls = <<>>
    /\ exit_status = <<>>
    /\ file \in MainDocuments
    /\ file0 = file
    /\ file_hist = <<>>

\* Lines 222-237: one turn of the loop.  fetch_smm_data is called outside
\* any try block: an exception it raised would end the process with a
\* traceback and status 1.
FetchNext ==
    /\ pc = "fetch"
    /\ idx <= Len(SMM_PRODUCTS)
    /\ \E resp \in MainResponses :
         LET key == SMM_PRODUCTS[idx].key
             w == FetchWindow(key, today)
             out == fetch_smm_data(SMM_PRODUCTS[idx].id, w.start, w.end, resp)
         IN /\ fetch_log' = Append(fetch_log,
                                   [key |-> key, id |-> SMM_PRODUCTS[idx].id,
                                    start |-> w.start, end |-> w.end,
                                    exc |-> out.exc, data |-> out.val])
            /\ IF out.exc = "none"
               THEN /\ smm_data' = Store(smm_data, key, out.val)
                    /\ idx' = idx + 1
                    /\ UNCHANGED <<pc, exit_status>>
               ELSE /\ pc' = "done"
                    /\ exit_status' = <<1>>
                    /\ UNCHANGED <<smm_data, idx>>
    /\ UNCHANGED <<response, fetch_result, today, update_calls, file, file0,
                   file_hist>>

\* Lines 241-248: the check of the required keys, after the loop
CheckRequired ==
    /\ pc = "fetch"
    /\ idx > Len(SMM_PRODUCTS)
    /\ IF Missing(smm_data) # <<>>
       THEN pc' = "done" /\ exit_status' = <<1>>
       ELSE pc' = "update" /\ UNCHANGED exit_status
    /\ UNCHANGED <<response, fetch_result, idx, today, smm_data, fetch_log,
                   update_calls, file, file0, file_hist>>

\* Lines 250-266: the call of update_html_file and the end of the run
UpdateDocument ==
    /\ pc = "update"
    /\ \E io \in IOs :
         LET out == update_html_file(file, smm_data, today, io)
         IN /\ file' = out.file
            /\ file_hist' = Append(file_hist, file)
            /\ update_calls' = Append(update_calls,
                                      CallRecord(smm_data, today, io, out))
            /\ exit_status' = <<ExitAfterUpdate(out)>>
    /\ pc' = "done"
    /\ UNCHANGED <<response, fetch_result, idx, today, smm_data, fetch_log,
                   file0>>

Next == FetchNext \/ CheckRequired \/ UpdateDocument

Spec == Init /\ [][Next]_vars

-----------------------------------------------------------------------------
(* fetch_smm_data on the responses of a provider *)

\* the rows of a response: a date (0: none or empty), and price fields
\* that are absent, unconvertible or a number
Rows ==
    [date : {0} \cup RowDates,
     avg_price : {None, Str, Num(3)},
     low_price : {None, Str, Num(1)},
     high_price : {None, Str, Num(4)}]

FailureKinds == {"http_error", "url_error", "timeout", "bad_json"}

\* the provider's answer before any row is put in it: a failure, or a JSON
\* object with a status and no rows yet
Responses ==
    {[kind |-> k, status |-> "", rows |-> <<>>] : k \in FailureKinds}
      \cup {[kind |-> "json", status |-> st, rows |-> <<>>] :
               st \in {"ok", "error"}}

InitFetch ==
    /\ response \in Responses
    /\ fetch_result = NotFetched
    /\ pc = "fetch"
    /\ idx = 1
    /\ today = 1000
    /\ smm_data = <<>>
    /\ fetch_log = <<>>
    /\ update_calls = <<>>
    /\ exit_status = <<>>
    /\ file = <<>>
    /\ file0 = file
    /\ file_hist = <<>>

\* The provider has one more row in its answer
AddRow ==
    /\ fetch_result = NotFetched
    /\ response.kind = "json"
    /\ Len(response.rows) < MaxRows
    /\ \E row \in Rows :
         response' = [response EXCEPT !.rows = Append(@, row)]
    /\ UNCHANGED <<fetch_result, pc, idx, today, smm_data, fetch_log,
                   update_calls, exit_status, file, file0, file_hist>>

\* One call of fetch_smm_data, answered by response
DoFetch ==
    /\ fetch_result = NotFetched
    /\ LET w == FetchWindow(SMM_PRODUCTS[idx].key, today)
       IN fetch_result' =
            fetch_smm_data(SMM_PRODUCTS[idx].id, w.start, w.end, response)
    /\ UNCHANGED <<response, pc, idx, today, smm_data, fetch_log,
                   update_calls, exit_status, file, file0, file_hist>>

NextFetch == AddRow \/ DoFetch

SpecFetch == InitFetch /\ [][NextFetch]_vars

\* fetch_smm_data has been called and has ended
Fetched == fetch_result.exc # "not called"

\* The answer is a JSON object whose status is 'ok'
StatusOk == response.kind = "json" /\ response.status = "ok"

\* The price field of the row (avg_price, or without it low_price and
\* high_price when both are there) cannot be converted to a number
UnconvertiblePrice(row) ==
    \/ row.avg_price = Str
    \/ /\ row.avg_price = None
       /\ row.low_price # None /\ row.high_price # None
       /\ (row.low_price = Str \/ row.high_price = Str)

\* A conversion of the row's price is attempted and fails: the mean of
\* low_price and high_price is computed for every row without avg_price,
\* avg_price is converted only on a row that has a date
ConversionFails(row) ==
    \/ row.avg_price = Str /\ row.date # 0
    \/ /\ row.avg_price = None
       /\ row.low_price # None /\ row.high_price # None
       /\ (row.low_price = Str \/ row.high_price = Str)

SomeRow(P(_)) == \E i \in 1..Len(response.rows) : P(response.rows[i])

\* C4 as stated: fetch_smm_data never raises, and returns the empty series
\* for a failed request, a body that is not JSON, a status other than 'ok'
\* and for rows with a record whose price field cannot be converted.
C4_AsStated ==
    Fetched =>
      /\ fetch_result.exc = "none"
      /\ (~StatusOk \/ SomeRow(UnconvertiblePrice)) => fetch_result.val = <<>>

\* C4 amended: fetch_smm_data never raises, and returns the empty series
\* for a failed request, a body that is not JSON, a status other than 'ok'
\* and for rows with a record on which the conversion of the price fails
\* (an unconvertible avg_price on a record that has a date, or, without
\* avg_price, an unconvertible low_price or high_price when both are
\* there).
C4_NeverRaises ==
    Fetched =>
      /\ fetch_result.exc = "none"
      /\ (~StatusOk \/ SomeRow(ConversionFails)) => fetch_result.val = <<>>

\* C4's case: a convertible record with a date comes first, a record whose
\* conversion fails second, and the call has returned the empty series
C4_Witness ==
    /\ Fetched /\ StatusOk
    /\ Len(response.rows) = 2
    /\ response.rows[1].date # 0 /\ response.rows[1].avg_price = Num(3)
    /\ ConversionFails(response.rows[2])
    /\ fetch_result = Returned(<<>>)

\* The reference of C5: the row is kept, and the point it yields
RefKept(row) ==
    /\ row.date # 0
    /\ \/ row.avg_price # None
       \/ row.low_price # None /\ row.high_price # None

RefPoint(row) ==
    [date |-> row.date,
     price |-> IF row.avg_price # None THEN 2 * row.avg_price.v
               ELSE row.low_price.v + row.high_price.v]

Count(s, x) == Cardinality({i \in 1..Len(s) : s[i] = x})

\* C5: for rows of a status-'ok' answer on which no conversion fails, the
\* series returned holds exactly the points of the kept rows (a row is kept
\* when it has a date and a price: avg_price, else the mean of low_price
\* and high_price when both are there), each as many times as the rows
\* yield it, ordered non-decreasing by date.
C5_SeriesIsReference ==
    (Fetched /\ StatusOk /\ ~SomeRow(ConversionFails)) =>
      LET rows == response.rows
          val == fetch_result.val
          kept == {i \in 1..Len(rows) : RefKept(rows[i])}
      IN /\ fetch_result.exc = "none"
         /\ Len(val) = Cardinality(kept)
         /\ \A i \in kept :
              Count(val, RefPoint(rows[i]))
                = Cardinality({j \in kept : RefPoint(rows[j]) = RefPoint(rows[i])})
         /\ \A i \in 1..(Len(val) - 1) : val[i].date <= val[i + 1].date

\* C5's case: two kept rows in descending order of date, the later one
\* priced by avg_price, the earlier one by the mean of low and high
C5_Witness ==
    /\ Fetched /\ StatusOk
    /\ Len(response.rows) = 2
    /\ response.rows[1].date = 2 /\ response.rows[1].avg_price = Num(3)
    /\ response.rows[2].date = 1 /\ response.rows[2].avg_price = None
    /\ fetch_result.val = <<[date |-> 1, price |-> 5], [date |-> 2, price |-> 6]>>

-----------------------------------------------------------------------------
(* update_html_file on documents, run after run *)

\* Most runs of update_html_file on one document (SpecUpdate)
MaxUpdates == 2

\* a DataSet as main builds it: sorted series, no empty series
NewData ==
    [k \in {"silver", "wafer", "silicon", "cell"} |->
        CASE k = "silver" -> <<[date |-> 1, price |-> 5],
                               [date |-> 2, price |-> 6],
                               [date |-> 2, price |-> 8]>>
          [] k = "silicon" -> <<[date |-> 1, price |-> 6],
                                [date |-> 2, price |-> 5]>>
          [] OTHER -> <<[date |-> 2, price |-> 6]>>]

\* the arguments of the runs: the DataSet and date of the block the
\* documents hold, or a new DataSet on a later day
UpdateArgs ==
    { [data |-> OldData, date |-> 1], [data |-> NewData, date |-> 1000] }

\* what documents are made of: text, a date stamp, a well-formed block as
\* an earlier run generated it, and stray pieces of the pattern
Fragments ==
    { <<"<p>">>,
      <<LABEL, DateStr(1)>>,
      smm_data_js(OldData, 1) \o <<NL>>,
      <<SP4, MARK, " is below", NL>>,
      <<DECL>>,
      END_LIT }

\* every sequence over S of length at most n
SeqUpTo(S, n) == UNION {[1..k -> S] : k \in 0..n}

Documents ==
    {Join(fs, <<>>) : fs \in SeqUpTo(Fragments, MaxFrags)}

InitUpdate ==
    /\ response = NoResponse
    /\ fetch_result = NotFetched
    /\ pc = "update"
    /\ idx = Len(SMM_PRODUCTS) + 1
    /\ \E args \in UpdateArgs : today = args.date /\ smm_data = args.data
    /\ fetch_log = <<>>
    /\ update_calls = <<>>
    /\ exit_status = <<>>
    /\ file \in Documents
    /\ file0 = file
    /\ file_hist = <<>>

\* One run of update_html_file on the document, with the same DataSet and
\* date as the run before
RunUpdate ==
    /\ Len(update_calls) < MaxUpdates
    /\ \E io \in IOs :
         LET out == update_html_file(file, smm_data, today, io)
         IN /\ file' = out.file
            /\ file_hist' = Append(file_hist, file)
            /\ update_calls' = Append(update_calls,
                                      CallRecord(smm_data, today, io, out))
    /\ UNCHANGED <<response, fetch_result, pc, idx, today, smm_data,
                   fetch_log, exit_status, file0>>

NextUpdate == RunUpdate

SpecUpdate == InitUpdate /\ [][NextUpdate]_vars

\* The text of the document before and after the i-th call
Before(i) == file_hist[i]
After(i) == IF i < Len(file_hist) THEN file_hist[i + 1] ELSE file

\* The i-th call met no I/O error
IoOk(i) == update_calls[i].io = "ok"

\* The regions of text matching the data-block pattern, left to right
RECURSIVE SpansFrom(_, _)
SpansFrom(text, from) ==
    LET m == Search(text, from)
    IN IF m = NoMatch THEN <<>> ELSE <<m>> \o SpansFrom(text, m.end + 1)

Spans(text) == SpansFrom(text, 1)

\* j is the position of the date of a date stamp of text
StampDate(text, j) ==
    j > 1 /\ text[j - 1] = LABEL /\ text[j] \in DateAtoms

\* text a and text b are the same but for the dates of a's date stamps,
\* which are date in b
SameButStamps(a, b, date) ==
    /\ Len(a) = Len(b)
    /\ \A j \in 1..Len(a) :
         IF StampDate(a, j) THEN b[j] = DateStr(date) ELSE b[j] = a[j]

\* C3 as stated: a call on a document with no text matching the data-block
\* pattern ends without raising and writes back the text it read.
C3_AsStated ==
    \A i \in 1..Len(update_calls) :
      (IoOk(i) /\ Spans(Before(i)) = <<>>) =>
        update_calls[i].exc = "none" /\ After(i) = Before(i)

\* C3 amended: a call on a document with no text matching the data-block
\* pattern ends without raising and writes back the text it read with the
\* date of every date stamp replaced by the update date; nothing else
\* changes.
C3_OnlyStampsChange ==
    \A i \in 1..Len(update_calls) :
      (IoOk(i) /\ Spans(Before(i)) = <<>>) =>
        /\ update_calls[i].exc = "none"
        /\ SameButStamps(Before(i), After(i), update_calls[i].update_date)

\* C3's case: a call on a document that holds the marker and a date stamp
\* of another day but no match, and the text written differs from the text
\* read
C3_Witness ==
    /\ Len(update_calls) = 1 /\ IoOk(1)
    /\ Spans(Before(1)) = <<>>
    /\ FindLit(Before(1), <<MARK>>, 1) # 0
    /\ \E j \in 1..Len(Before(1)) : StampDate(Before(1), j)
    /\ After(1) # Before(1)

\* The replacement of C7 as stated: the first region only
FirstReplaced(text, repl) ==
    LET m == Spans(text)[1]
    IN SubSeq(text, 1, m.start - 1) \o repl
         \o SubSeq(text, m.end + 1, Len(text))

\* The number of places where lit occurs in text
Occurrences(text, lit) ==
    Cardinality({i \in 1..(Len(text) - Len(lit) + 1) :
                    \A j \in 1..Len(lit) : text[i + j - 1] = lit[j]})

\* C7 as stated: a call on a document with more than one region matching
\* the pattern replaces the first and leaves the later ones as they were.
C7_AsStated ==
    \A i \in 1..Len(update_calls) :
      (IoOk(i) /\ Len(Spans(Before(i))) >= 2) =>
        SameButStamps(FirstReplaced(Before(i),
                                    smm_data_js(update_calls[i].data,
                                                update_calls[i].update_date)),
                      After(i), update_calls[i].update_date)

\* C7 amended: a call on a document with more than one region matching the
\* pattern replaces every one of them (the non-overlapping matches, left
\* to right) by the new block: the text written holds the new block once
\* per region, the text in front of the first region and the text behind
\* the last are kept (but for date stamps), and so is the text between two
\* regions.
C7_EveryRegionReplaced ==
    \A i \in 1..Len(update_calls) :
      (IoOk(i) /\ Len(Spans(Before(i))) >= 2) =>
        LET text == Before(i)
            out == After(i)
            date == update_calls[i].update_date
            repl == smm_data_js(update_calls[i].data, date)
            sp == Spans(text)
            n == Len(sp)
            \* where the k-th region's replacement starts in out
            at[k \in 1..n] ==
                IF k = 1 THEN sp[1].start
                ELSE at[k - 1] + Len(repl) + (sp[k].start - sp[k - 1].end - 1)
        IN /\ Occurrences(out, repl) = n
           /\ Len(out) = at[n] + Len(repl) - 1 + (Len(text) - sp[n].end)
           /\ \A k \in 1..n :
                SubSeq(out, at[k], at[k] + Len(repl) - 1) = repl
           /\ SameButStamps(SubSeq(text, 1, sp[1].start - 1),
                            SubSeq(out, 1, at[1] - 1), date)
           /\ \A k \in 2..n :
                SameButStamps(SubSeq(text, sp[k - 1].end + 1, sp[k].start - 1),
                              SubSeq(out, at[k - 1] + Len(repl), at[k] - 1),
                              date)
           /\ SameButStamps(SubSeq(text, sp[n].end + 1, Len(text)),
                            SubSeq(out, at[n] + Len(repl), Len(out)), date)

\* C7's case: a call on a document with two well-formed blocks, with a
\* DataSet other than the blocks', after which neither old block is left
C7_Witness ==
    /\ Len(update_calls) = 1 /\ IoOk(1)
    /\ Len(Spans(Before(1))) = 2
    /\ update_calls[1].data = NewData
    /\ Occurrences(Before(1), smm_data_js(OldData, 1)) = 2
    /\ Occurrences(After(1), Tail(Tail(smm_data_js(OldData, 1)))) = 0

\* A data block from its leading comment on: the generated text without
\* the indentation in front of the comment
BlockText(data, date) == Tail(Tail(smm_data_js(data, date)))

\* The document holds one well-formed data block, as an earlier run
\* generated it, no other piece of the pattern, and a date stamp
WellFormedPage(text) ==
    /\ Len(Spans(text)) = 1
    /\ Occurrences(text, smm_data_js(OldData, 1)) = 1
    /\ Occurrences(text, <<MARK>>) = 1
    /\ Occurrences(text, <<DECL>>) = 1
    /\ Occurrences(text, END_LIT) = 1
    /\ \E j \in 1..Len(text) : StampDate(text, j)

\* C2: after a call on a document with one well-formed data block and a
\* date stamp, the date stamp carries the update date, the data block
\* (from its leading comment to its closing "};") is the newly generated
\* block, and the text in front of the block's leading comment, its
\* indentation included, and the text behind the block are those of the
\* input (but for the date of the date stamp).
C2_AsStated ==
    \A i \in 1..Len(update_calls) :
      (IoOk(i) /\ WellFormedPage(Before(i))) =>
        LET text == Before(i)
            out == After(i)
            date == update_calls[i].update_date
            block == BlockText(update_calls[i].data, date)
            p == Spans(text)[1].start
            e == Spans(text)[1].end
            q == FindLit(out, <<MARK>>, 1)
        IN /\ update_calls[i].exc = "none"
           /\ q # 0
           /\ SubSeq(out, q, q + Len(block) - 1) = block
           /\ SameButStamps(SubSeq(text, 1, p - 1), SubSeq(out, 1, q - 1),
                            date)
           /\ SameButStamps(SubSeq(text, e + 1, Len(text)),
                            SubSeq(out, q + Len(block), Len(out)), date)

\* C10: two calls in a row on a document with a well-formed data block,
\* with the same DataSet and the same date, leave the document as the
\* first call left it.
C10_AsStated ==
    \A i \in 1..(Len(update_calls) - 1) :
      (IoOk(i) /\ IoOk(i + 1) /\ WellFormedPage(Before(i))
         /\ update_calls[i + 1].data = update_calls[i].data
         /\ update_calls[i + 1].update_date = update_calls[i].update_date)
        => After(i + 1) = After(i)

-----------------------------------------------------------------------------
(* Claims about main *)

\* The fetch pass is over: the loop has left the last product behind
FetchPassOver == idx > Len(SMM_PRODUCTS)

\* The required keys of C1 that the DataSet lacks or maps to no point
RequiredLacking ==
    {k \in {"silver", "wafer", "silicon", "cell"} :
        k \notin DOMAIN smm_data \/ smm_data[k] = <<>>}

\* C1: when a required key (silver, wafer, silicon, cell) is missing from
\* the DataSet or empty after the fetch pass, the process ends with status
\* 1, update_html_file is never called and the document is as it was.
C1_MissingRequiredExits ==
    (FetchPassOver /\ RequiredLacking # {}) =>
      /\ update_calls = <<>>
      /\ file = file0
      /\ pc \in {"fetch", "done"}
      /\ pc = "done" => exit_status = <<1>>

\* C1's case: the run has ended after a fetch pass in which only 'cell' of
\* the required keys got no data
C1_Witness ==
    /\ pc = "done" /\ FetchPassOver
    /\ RequiredLacking = {"cell"}
    /\ exit_status = <<1>>

\* C6 as stated: after the fetch pass the DataSet has an entry for every
\* product key.
C6_AsStated ==
    FetchPassOver =>
      \A i \in 1..Len(SMM_PRODUCTS) : SMM_PRODUCTS[i].key \in DOMAIN smm_data

\* C6 amended: after the fetch pass the DataSet has an entry exactly for
\* the products whose fetch returned points, and that entry is the series
\* returned; a product whose fetch failed or returned no points is absent
\* from the DataSet (never mapped to the empty series).
C6_EntryIffData ==
    FetchPassOver =>
      \A i \in 1..Len(SMM_PRODUCTS) :
        LET key == SMM_PRODUCTS[i].key
        IN /\ fetch_log[i].key = key
           /\ IF fetch_log[i].data = <<>>
              THEN key \notin DOMAIN smm_data
              ELSE key \in DOMAIN smm_data
                     /\ smm_data[key] = fetch_log[i].data

\* C6's case: the fetch pass is over, the fetch of 'silver' returned
\* points and the fetch of 'wafer' none
C6_Witness ==
    /\ FetchPassOver
    /\ fetch_log[1].data # <<>>
    /\ fetch_log[2].data = <<>>
    /\ DOMAIN smm_data # {}

\* The fetches of C8, in order: the registry's products, the two cost
\* indices with the 90-day window and the others with the 45-day window
ExpectedFetch(i) ==
    LET key == SMM_PRODUCTS[i].key
    IN [key |-> key, id |-> SMM_PRODUCTS[i].id,
        start |-> IF i >= 11 THEN today - 90 ELSE today - 45,
        end |-> today]

\* C8: whichever fetches fail, the fetches made are, in order and once
\* each, those of the registry's products with their windows, and the
\* check of the required keys and the update happen after all twelve.
C8_FetchOrder ==
    /\ Len(fetch_log) <= 12
    /\ \A i \in 1..Len(fetch_log) :
         LET f == fetch_log[i]
         IN [key |-> f.key, id |-> f.id, start |-> f.start, end |-> f.end]
              = ExpectedFetch(i)
    /\ (pc # "fetch" \/ update_calls # <<>> \/ exit_status # <<>>)
         => Len(fetch_log) = 12
    /\ {fetch_log[i].key : i \in 11..Len(fetch_log)}
         \subseteq {"topconIntegrated", "topconSemi"}

\* C8's case: a run has ended with the document updated although the
\* fetches of a spot product and of a cost index failed
C8_Witness ==
    /\ pc = "done"
    /\ Len(update_calls) = 1
    /\ fetch_log[5].data = <<>>
    /\ fetch_log[11].data = <<>>
    /\ fetch_log[12].data # <<>>

\* C9: a run that has ended with every required key holding data has
\* called update_html_file once, with the DataSet and today's date; its
\* status is 0 only if the call did not raise, 1 if the call raised; and
\* every run that has ended has status 0 or 1.
C9_UpdateOnceAndExit ==
    /\ pc = "done" => exit_status \in {<<0>>, <<1>>}
    /\ pc # "done" => exit_status = <<>>
    /\ (pc = "done" /\ FetchPassOver /\ RequiredLacking = {}) =>
         /\ Len(update_calls) = 1
         /\ update_calls[1].data = smm_data
         /\ update_calls[1].update_date = today
         /\ exit_status = <<0>> => update_calls[1].exc = "none"
         /\ update_calls[1].exc # "none" => exit_status = <<1>>

\* C9's case: a run in which update_html_file raised on the write has
\* ended with status 1
C9_Witness ==
    /\ pc = "done"
    /\ Len(update_calls) = 1
    /\ update_calls[1].io = "write_error"
    /\ update_calls[1].exc = "OSError"
    /\ exit_status = <<1>>

=============================================================================
